---------------------------- MODULE Spec2Model ----------------------------
(***************************************************************************)
(* A model of the bina interpreter: lexer (src/src/lexer.rs), parser       *)
(* (src/src/parser.rs) and tree-walking evaluator (src/src/runtime.rs),    *)
(* driven as in src/src/main.rs.                                           *)
(*                                                                         *)
(* Text is modelled as a sequence of one-character strings, so that        *)
(* indexing, substring search, numeric parsing and decimal formatting are  *)
(* computed, not assumed.  Numbers are the model checker's integers: the   *)
(* inputs are kept far below the i64 range, so i64 overflow is outside     *)
(* what this model reaches.                                                *)
(***************************************************************************)
EXTENDS Integers, Sequences, FiniteSets, TLC

VARIABLES
    pc,        \* which stage runs: "lex", "parse", "eval" or "done"
    entry,     \* the function entered: "main", "parse", "parse_input", "inner_run"
    given,     \* what that function was handed: source text, tokens or statements
    chars,     \* lexer::parse: the characters not yet consumed
    tokens,    \* lexer::parse: the token vector built so far
    input,     \* parser::parse_input: the tokens not yet consumed
    ret,       \* parser::parse_input: the statements parsed so far
    pending,   \* runtime: the statements still to be evaluated, innermost first
    env,       \* runtime: the environment
    stdout,    \* the lines written to standard output so far
    outcome,   \* "running", or how the run ended: Ok, Err or Panic
    printed,   \* history: the texts of the print statements executed so far
    assigned   \* history: for each name, the value of its last executed assignment

vars == <<pc, entry, given, chars, tokens, input, ret, pending, env, stdout,
          outcome, printed, assigned>>

---------------------------------------------------------------------------
(* Bounds of the model.                                                    *)

\* number literals of the generated programs are 0..MaxLit
MaxLit == 2
\* generated token sequences have at most MaxTokens tokens
MaxTokens == 3
\* the longest numeral and the longest string body handed to the lexer alone
MaxDigits == 3

---------------------------------------------------------------------------
(* Characters and text.                                                    *)

Digits == <<"0", "1", "2", "3", "4", "5", "6", "7", "8", "9">>

IsDigit(c) == \E i \in 1..10 : Digits[i] = c

\* char::to_digit(10) of a decimal digit
DigitValue(c) == (CHOOSE i \in 1..10 : Digits[i] = c) - 1

RECURSIVE DigitsValueUnshifted(_, _)
\* the accumulation without the shift by ten
DigitsValueUnshifted(acc, s) ==
    IF s = <<>> THEN acc
    ELSE DigitsValueUnshifted(acc + DigitValue(Head(s)), Tail(s))

RECURSIVE DigitsValue(_, _)
\* the accumulation loop of a run of decimal digits, most significant first
DigitsValue(acc, s) ==
    IF s = <<>> THEN acc
    ELSE DigitsValue(acc * 10 + DigitValue(Head(s)), Tail(s))

\* str::parse::<i64>: an optional sign, then one or more decimal digits
ParseI64(s) ==
    LET signed == s # <<>> /\ Head(s) \in {"+", "-"}
        body   == IF signed THEN Tail(s) ELSE s
    IN  IF body = <<>> \/ \E i \in 1..Len(body) : ~IsDigit(body[i])
        THEN [ok |-> FALSE, n |-> 0]
        ELSE [ok |-> TRUE,
              n  |-> IF signed /\ Head(s) = "-"
                     THEN 0 - DigitsValue(0, body)
                     ELSE DigitsValue(0, body)]

RECURSIVE NatToDecimal(_)
NatToDecimal(n) ==
    IF n < 10 THEN <<Digits[n + 1]>>
    ELSE Append(NatToDecimal(n \div 10), Digits[(n % 10) + 1])

\* Display of an i64
ToDecimal(n) == IF n < 0 THEN <<"-">> \o NatToDecimal(0 - n) ELSE NatToDecimal(n)

\* str::contains(&pat): pat occurs in hay as a contiguous run of characters
Contains(hay, pat) ==
    \E i \in 0..(Len(hay) - Len(pat)) : SubSeq(hay, i + 1, i + Len(pat)) = pat

\* Chars::nth(n as usize): the character at position n, counted from 0
Nth(s, n) ==
    IF n >= 0 /\ n < Len(s) THEN [some |-> TRUE, c |-> s[n + 1]]
    ELSE [some |-> FALSE, c |-> ""]

---------------------------------------------------------------------------
(* The abstract syntax tree (parser.rs) and runtime values (runtime.rs).   *)

TInteger(n)            == [k |-> "Integer", n |-> n]
TString(s)             == [k |-> "String", s |-> s]
TBoolean(b)            == [k |-> "Boolean", b |-> b]
TVariable(s)           == [k |-> "Variable", s |-> s]
TVariableIndexed(s, e) == [k |-> "VariableIndexed", s |-> s, e |-> e]

BinaryExpr(op, l, r) == [k |-> op, l |-> l, r |-> r]
TermWrapper(t)       == [k |-> "TermWrapper", t |-> t]

If(e, body)                == [k |-> "If", e |-> e, body |-> body]
While(e, body)             == [k |-> "While", e |-> e, body |-> body]
Block(block)               == [k |-> "Block", block |-> block]
Assignment(name, e, isLet) == [k |-> "Assignment", name |-> name, e |-> e, is_let |-> isLet]
PrintStmt(e)               == [k |-> "Print", e |-> e]

VNumber(n)  == [t |-> "Number", n |-> n]
VBoolean(b) == [t |-> "Boolean", b |-> b]
VString(s)  == [t |-> "String", s |-> s]

\* Result<T>: Ok(v), Err(msg), or a panic that unwinds the whole process
Ok(v)      == [st |-> "Ok", v |-> v]
Err(msg)   == [st |-> "Err", msg |-> msg]
Panic(msg) == [st |-> "Panic", msg |-> msg]

EmptyEnv == <<>>

\* HashMap::insert
Insert(e, name, v) ==
    [x \in (DOMAIN e) \cup {name} |-> IF x = name THEN v ELSE e[x]]

---------------------------------------------------------------------------
(* lexer.rs: tokens, and their Debug text.                                 *)

Tok(kind)        == [k |-> kind]
TokInteger(n)    == [k |-> "Integer", n |-> n]
TokIdentifier(s) == [k |-> "Identifier", s |-> s]
TokString(s)     == [k |-> "String", s |-> s]

\* Option::None, where the code holds an Option<Token>
NoToken == [k |-> "None"]

\* Peekable::peek, and what Iterator::next returns
Peek(in) == IF in = <<>> THEN NoToken ELSE Head(in)
\* what Iterator::next leaves
Advance(in) == IF in = <<>> THEN <<>> ELSE Tail(in)

\* the name of a token variant, as derive(Debug) writes it
VariantName(k) ==
    CASE k = "True" -> <<"T", "r", "u", "e">>
      [] k = "False" -> <<"F", "a", "l", "s", "e">>
      [] k = "Assignment" -> <<"A", "s", "s", "i", "g", "n", "m", "e", "n", "t">>
      [] k = "OpenRoundParenthesis" -> <<"O", "p", "e", "n", "R", "o", "u", "n", "d", "P", "a", "r", "e", "n", "t", "h", "e", "s", "i", "s">>
      [] k = "CloseRoundParenthesis" -> <<"C", "l", "o", "s", "e", "R", "o", "u", "n", "d", "P", "a", "r", "e", "n", "t", "h", "e", "s", "i", "s">>
      [] k = "OpenGraphParenthesis" -> <<"O", "p", "e", "n", "G", "r", "a", "p", "h", "P", "a", "r", "e", "n", "t", "h", "e", "s", "i", "s">>
      [] k = "CloseGraphParenthesis" -> <<"C", "l", "o", "s", "e", "G", "r", "a", "p", "h", "P", "a", "r", "e", "n", "t", "h", "e", "s", "i", "s">>
      [] k = "OpenSquareParenthesis" -> <<"O", "p", "e", "n", "S", "q", "u", "a", "r", "e", "P", "a", "r", "e", "n", "t", "h", "e", "s", "i", "s">>
      [] k = "CloseSquareParenthesis" -> <<"C", "l", "o", "s", "e", "S", "q", "u", "a", "r", "e", "P", "a", "r", "e", "n", "t", "h", "e", "s", "i", "s">>
      [] k = "Integer" -> <<"I", "n", "t", "e", "g", "e", "r">>
      [] k = "Identifier" -> <<"I", "d", "e", "n", "t", "i", "f", "i", "e", "r">>
      [] k = "String" -> <<"S", "t", "r", "i", "n", "g">>
      [] k = "While" -> <<"W", "h", "i", "l", "e">>
      [] k = "If" -> <<"I", "f">>
      [] k = "Else" -> <<"E", "l", "s", "e">>
      [] k = "ExclamationPoint" -> <<"E", "x", "c", "l", "a", "m", "a", "t", "i", "o", "n", "P", "o", "i", "n", "t">>
      [] k = "LogicalOr" -> <<"L", "o", "g", "i", "c", "a", "l", "O", "r">>
      [] k = "Addition" -> <<"A", "d", "d", "i", "t", "i", "o", "n">>
      [] k = "Multiplication" -> <<"M", "u", "l", "t", "i", "p", "l", "i", "c", "a", "t", "i", "o", "n">>
      [] k = "Semicolon" -> <<"S", "e", "m", "i", "c", "o", "l", "o", "n">>
      [] k = "Equality" -> <<"E", "q", "u", "a", "l", "i", "t", "y">>
      [] k = "Disequality" -> <<"D", "i", "s", "e", "q", "u", "a", "l", "i", "t", "y">>
      [] k = "Let" -> <<"L", "e", "t">>
      [] k = "LessThan" -> <<"L", "e", "s", "s", "T", "h", "a", "n">>
      [] k = "In" -> <<"I", "n">>
      [] k = "Print" -> <<"P", "r", "i", "n", "t">>

RECURSIVE EscapeDebug(_)
\* the characters of a string as Debug writes them between the quotes
EscapeDebug(str) ==
    IF str = <<>> THEN <<>>
    ELSE LET c == Head(str)
             e == CASE c = "\"" -> <<"\\", "\"">>
                    [] c = "\\" -> <<"\\", "\\">>
                    [] c = "\n" -> <<"\\", "n">>
                    [] c = "\t" -> <<"\\", "t">>
                    [] c = "\r" -> <<"\\", "r">>
                    [] OTHER    -> <<c>>
         IN  e \o EscapeDebug(Tail(str))

\* {:?} of a String
DebugString(str) == <<"\"">> \o EscapeDebug(str) \o <<"\"">>

\* {:?} of a Token
DebugToken(tok) ==
    CASE tok.k = "Integer" -> VariantName(tok.k) \o <<"(">> \o ToDecimal(tok.n) \o <<")">>
      [] tok.k \in {"Identifier", "String"} ->
            VariantName(tok.k) \o <<"(">> \o DebugString(tok.s) \o <<")">>
      [] OTHER -> VariantName(tok.k)

\* {:?} of an Option<&Token>
DebugOption(tok) ==
    IF tok = NoToken THEN <<"N", "o", "n", "e">>
    ELSE <<"S", "o", "m", "e", "(">> \o DebugToken(tok) \o <<")">>

---------------------------------------------------------------------------
(* lexer.rs: parse, one iteration of its loop at a time.                   *)

Letters ==
    {"a", "b", "c", "d", "e", "f", "g", "h", "i", "j", "k", "l", "m", "n",
     "o", "p", "q", "r", "s", "t", "u", "v", "w", "x", "y", "z", "A", "B",
     "C", "D", "E", "F", "G", "H", "I", "J", "K", "L", "M", "N", "O", "P",
     "Q", "R", "S", "T", "U", "V", "W", "X", "Y", "Z"}

\* char::is_alphanumeric, on the characters the inputs are written in
IsAlphanumeric(c) == c \in Letters \/ IsDigit(c)

\* how many characters the digit loop consumes: the longest run of digits
DigitRun(cs) ==
    CHOOSE n \in 0..Len(cs) :
        /\ \A i \in 1..n : IsDigit(cs[i])
        /\ n = Len(cs) \/ ~IsDigit(cs[n + 1])

IsIdentifierChar(c) == IsAlphanumeric(c) \/ c = "_"

\* how many characters the identifier loop consumes
IdentifierRun(cs) ==
    CHOOSE n \in 0..Len(cs) :
        /\ \A i \in 1..n : IsIdentifierChar(cs[i])
        /\ n = Len(cs) \/ ~IsIdentifierChar(cs[n + 1])

IsNotQuote(c) == c # "\""

\* how many characters the string loop pushes: those before the next quote,
\* or all that is left when there is none
StringRun(cs) ==
    CHOOSE n \in 0..Len(cs) :
        /\ \A i \in 1..n : IsNotQuote(cs[i])
        /\ n = Len(cs) \/ ~IsNotQuote(cs[n + 1])

\* string.replace("\\n", "\n"): left to right, without overlap
ReplaceNewlines(str) ==
    LET from[i \in 1..(Len(str) + 1)] ==
            IF i > Len(str) THEN <<>>
            ELSE IF i < Len(str) /\ str[i] = "\\" /\ str[i + 1] = "n"
                 THEN <<"\n">> \o from[i + 2]
                 ELSE <<str[i]>> \o from[i + 1]
    IN  from[1]

Drop(cs, n) == SubSeq(cs, n + 1, Len(cs))

Keyword(identifier) ==
    CASE identifier = <<"w", "h", "i", "l", "e">> -> Tok("While")
      [] identifier = <<"i", "f">> -> Tok("If")
      [] identifier = <<"e", "l", "s", "e">> -> Tok("Else")
      [] identifier = <<"t", "r", "u", "e">> -> Tok("True")
      [] identifier = <<"f", "a", "l", "s", "e">> -> Tok("False")
      [] identifier = <<"l", "e", "t">> -> Tok("Let")
      [] identifier = <<"i", "n">> -> Tok("In")
      [] identifier = <<"p", "r", "i", "n", "t">> -> Tok("Print")
      [] OTHER -> TokIdentifier(identifier)

LOk(tok, rest) == [st |-> "Ok", tok |-> tok, rest |-> rest]
LSkip(rest)    == [st |-> "Skip", rest |-> rest]
LErr(msg)      == [st |-> "Err", msg |-> msg]

\* a two-character operator: the second character must be `second`
TwoChar(cs, second, kind, msg) ==
    IF Len(cs) >= 2 /\ cs[2] = second THEN LOk(Tok(kind), Drop(cs, 2)) ELSE LErr(msg)

\* the string literal that starts at the quote heading cs
StringLiteral(cs) ==
    LET n      == StringRun(Tail(cs))
        closed == Len(cs) >= n + 2
    IN  LOk(TokString(ReplaceNewlines(SubSeq(cs, 2, n + 1))),
            Drop(cs, IF closed THEN n + 2 ELSE n + 1))

\* the body of the loop of parse, for the character heading cs
lex_token(cs) ==
    LET c == Head(cs)
    IN  CASE IsDigit(c) ->
                LET n == DigitRun(cs)
                IN  LOk(TokInteger(DigitsValue(0, SubSeq(cs, 1, n))), Drop(cs, n))
          [] c = "(" -> LOk(Tok("OpenRoundParenthesis"), Tail(cs))
          [] c = ")" -> LOk(Tok("CloseRoundParenthesis"), Tail(cs))
          [] c = "=" -> TwoChar(cs, "=", "Equality", "expected '=' after '='")
          [] c = "|" -> TwoChar(cs, "|", "LogicalOr", "expected '|' after '|'")
          [] c = "!" -> TwoChar(cs, "=", "Disequality", "unexpect char after !")
          [] c = "+" -> LOk(Tok("Addition"), Tail(cs))
          [] c = "*" -> LOk(Tok("Multiplication"), Tail(cs))
          [] c = ";" -> LOk(Tok("Semicolon"), Tail(cs))
          [] c = "<" -> LOk(Tok("LessThan"), Tail(cs))
          [] c = "{" -> LOk(Tok("OpenGraphParenthesis"), Tail(cs))
          [] c = "[" -> LOk(Tok("OpenSquareParenthesis"), Tail(cs))
          [] c = "]" -> LOk(Tok("CloseSquareParenthesis"), Tail(cs))
          [] c = "}" -> LOk(Tok("CloseGraphParenthesis"), Tail(cs))
          [] c = ":" -> TwoChar(cs, "=", "Assignment", "expected '=' after ':'")
          [] c \in {" ", "\t", "\n", "\r"} -> LSkip(Tail(cs))
          [] c = "\"" -> StringLiteral(cs)
          [] c \in Letters \/ c = "_" ->
                LET n == IdentifierRun(cs)
                IN  LOk(Keyword(SubSeq(cs, 1, n)), Drop(cs, n))
          [] OTHER -> LErr("unrecognized char")

---------------------------------------------------------------------------
(* parser.rs.  A parsing function returns the node it built, the tokens it *)
(* left in the iterator, and the lines it wrote to standard output.        *)

POk(v, rest, lines) == [st |-> "Ok", v |-> v, rest |-> rest, lines |-> lines]
PErr(msg, lines)    == [st |-> "Err", msg |-> msg, lines |-> lines]
PPanic(msg, lines)  == [st |-> "Panic", msg |-> msg, lines |-> lines]

\* the binary expression each operator token builds
OperatorOf(k) ==
    CASE k = "Multiplication" -> "Multiply"
      [] k = "Addition"       -> "Add"
      [] k = "Disequality"    -> "DisEquality"
      [] k = "Equality"       -> "Equality"
      [] k = "LessThan"       -> "LessThan"
      [] k = "In"             -> "ContainedIn"

OperatorTokens ==
    {"Multiplication", "Addition", "Disequality", "Equality", "LessThan", "In"}

RECURSIVE parse_term(_), parse_expr(_)

\* a closing token that is checked: anything but ] is an error
CloseIndexChecked(s, index) ==
    IF index.rest = <<>> THEN PPanic("called Option::unwrap() on a None value", <<>>)
    ELSE IF Head(index.rest) # Tok("CloseSquareParenthesis") THEN PErr("Expected ']'", <<>>)
    ELSE POk(TVariableIndexed(s, index.v), Tail(index.rest), <<>>)

\* the token after the index expression: input.next().unwrap()
CloseIndex(s, index) ==
    IF index.rest = <<>> THEN PPanic("called Option::unwrap() on a None value", <<>>)
    ELSE POk(TVariableIndexed(s, index.v), Tail(index.rest), <<>>)

parse_term(in) ==
    LET tok == Peek(in)
    IN  CASE tok.k = "Integer" -> POk(TInteger(tok.n), Tail(in), <<>>)
          [] tok.k = "String"  -> POk(TString(tok.s), Tail(in), <<>>)
          [] tok.k = "True"    -> POk(TBoolean(TRUE), Tail(in), <<>>)
          [] tok.k = "False"   -> POk(TBoolean(FALSE), Tail(in), <<>>)
          [] tok.k = "Identifier" ->
                IF Peek(Tail(in)).k = "OpenSquareParenthesis"
                THEN LET index == parse_expr(Tail(Tail(in)))
                     IN  IF index.st # "Ok" THEN index ELSE CloseIndex(tok.s, index)
                ELSE POk(TVariable(tok.s), Tail(in), <<>>)
          [] tok.k = "None" -> PErr("parse_term: Unexpected end of input", <<>>)
          [] OTHER -> PErr("parse_term: Unexpected token", <<>>)

\* an expression parser that goes on to a second operator: (a op b) op c
\* keeps the first pair and consumes the rest of the chain
parse_expr_chained(in) ==
    LET left == parse_term(in)
    IN  IF left.st # "Ok" THEN left
        ELSE LET op == Peek(left.rest)
             IN  CASE op.k \in OperatorTokens ->
                        LET right == parse_term(Tail(left.rest))
                        IN  IF right.st # "Ok" THEN right
                            ELSE IF Peek(right.rest).k \in OperatorTokens
                                 THEN LET third == parse_term(Tail(right.rest))
                                      IN  IF third.st # "Ok" THEN third
                                          ELSE POk(BinaryExpr(OperatorOf(op.k), left.v,
                                                              right.v),
                                                   third.rest, <<>>)
                                 ELSE POk(BinaryExpr(OperatorOf(op.k), left.v, right.v),
                                          right.rest, <<>>)
                   [] op.k = "None" -> PErr("parse_expr: Unexpected token None", <<>>)
                   [] OTHER -> POk(TermWrapper(left.v), left.rest, <<>>)

parse_expr(in) ==
    LET left == parse_term(in)
    IN  IF left.st # "Ok" THEN left
        ELSE LET op == Peek(left.rest)
             IN  CASE op.k \in OperatorTokens ->
                        LET right == parse_term(Tail(left.rest))
                        IN  IF right.st # "Ok" THEN right
                            ELSE POk(BinaryExpr(OperatorOf(op.k), left.v, right.v),
                                     right.rest, <<>>)
                   [] op.k = "None" -> PErr("parse_expr: Unexpected token None", <<>>)
                   [] OTHER -> POk(TermWrapper(left.v), left.rest, <<>>)

expect_semicolon(t) ==
    IF t # Tok("Semicolon") THEN PErr("Expected ';'", <<>>) ELSE POk(<<>>, <<>>, <<>>)

\* := expr ; after the target of an assignment
AssignmentTail(identifier, in, isLet, lines) ==
    IF Peek(in) # Tok("Assignment") THEN PErr("Expected ':='", lines)
    ELSE LET expr == parse_expr(Advance(in))
         IN  IF expr.st # "Ok" THEN [expr EXCEPT !.lines = lines]
             ELSE IF expect_semicolon(Peek(expr.rest)).st # "Ok"
                  THEN PErr("Expected ';'", lines)
                  ELSE POk(Assignment(identifier, expr.v, isLet), Advance(expr.rest),
                           lines)

RECURSIVE parse_statement(_), parse_block(_), parse_block_loop(_, _, _), parse_while(_)

\* the loop of parse_block: statements up to the closing brace
parse_block_loop(in, acc, lines) ==
    IF Peek(in) = Tok("CloseGraphParenthesis")
    THEN POk(Block(acc), Tail(in), lines)
    ELSE LET statement == parse_statement(in)
         IN  IF statement.st # "Ok"
             THEN [statement EXCEPT !.lines = lines \o statement.lines]
             ELSE parse_block_loop(statement.rest, Append(acc, statement.v),
                                   lines \o statement.lines)

parse_block(in) ==
    IF Peek(in) # Tok("OpenGraphParenthesis") THEN PErr("Expected '{'", <<>>)
    ELSE parse_block_loop(Tail(in), <<>>, <<>>)

\* predicate and block, of a while and of an if
parse_while(in) ==
    LET condition == parse_expr(in)
    IN  IF condition.st # "Ok" THEN condition
        ELSE LET block == parse_block(condition.rest)
             IN  IF block.st # "Ok" THEN block
                 ELSE POk(While(condition.v, block.v), block.rest, block.lines)

parse_if(in) ==
    LET condition == parse_expr(in)
    IN  IF condition.st # "Ok" THEN condition
        ELSE LET block == parse_block(condition.rest)
             IN  IF block.st # "Ok" THEN block
                 ELSE POk(If(condition.v, block.v), block.rest, block.lines)

parse_let(in) ==
    LET identifier == Peek(in)
    IN  IF identifier.k = "Identifier"
        THEN AssignmentTail(identifier.s, Tail(in), TRUE,
                            <<<<"I", "d", "e", "n", "t", "i", "f", "i", "e", "r", ":", " ">>
                                \o DebugString(identifier.s)>>)
        ELSE PErr("Expected identifier", <<>>)

parse_print(in) ==
    LET expr == parse_expr(in)
    IN  IF expr.st # "Ok" THEN expr
        ELSE IF expect_semicolon(Peek(expr.rest)).st # "Ok" THEN PErr("Expected ';'", <<>>)
             ELSE POk(PrintStmt(expr.v), Advance(expr.rest), <<>>)

parse_statement(in) ==
    LET tok == Peek(in)
    IN  CASE tok.k = "While"      -> parse_while(Tail(in))
          [] tok.k = "If"         -> parse_if(Tail(in))
          [] tok.k = "Identifier" -> AssignmentTail(tok.s, Tail(in), FALSE, <<>>)
          [] tok.k = "Let"        -> parse_let(Tail(in))
          [] tok.k = "Print"      -> parse_print(Tail(in))
          [] OTHER -> PErr("parse_statement: Unexpected token", <<>>)

---------------------------------------------------------------------------
(* runtime.rs: terms and expressions.                                      *)

RECURSIVE eval_term(_, _), eval_expr(_, _)

\* the lookup with unwrap_or_default in place of the error
IndexIntoOrDefault(index, base_array) ==
    IF index.t = "Number" /\ base_array.t = "String"
    THEN LET r == Nth(base_array.s, index.n)
         IN  IF r.some THEN Ok(VString(<<r.c>>)) ELSE Ok(VString(<<>>))
    ELSE Err("base_array is not a string or index is not a number")

\* the character lookup of an indexed term, once base and index are known
IndexInto(index, base_array) ==
    IF index.t = "Number" /\ base_array.t = "String"
    THEN LET r == Nth(base_array.s, index.n)
         IN  IF r.some THEN Ok(VString(<<r.c>>))
             ELSE Err("variableIndexed: index out of bounds")
    ELSE Err("base_array is not a string or index is not a number")

eval_term(e, term) ==
    CASE term.k = "String"  -> Ok(VString(term.s))
      [] term.k = "Integer" -> Ok(VNumber(term.n))
      [] term.k = "Boolean" -> Ok(VBoolean(term.b))
      [] term.k = "Variable" ->
            IF term.s \in DOMAIN e THEN Ok(e[term.s]) ELSE Err("variable not found")
      [] term.k = "VariableIndexed" ->
            IF term.s \notin DOMAIN e THEN Err("variable not found")
            ELSE LET index == eval_expr(e, term.e)
                 IN  IF index.st # "Ok" THEN index
                     ELSE IndexInto(index.v, e[term.s])

\* the string operand of Add and Multiply: l.parse::<i64>().unwrap()
ParseUnwrap(s) ==
    LET p == ParseI64(s)
    IN  IF p.ok THEN Ok(p.n) ELSE Panic("ParseIntError")

\* Add with unwrap_or(0) in place of unwrap
AddValuesLenient(left, right) ==
    LET num(s) == IF ParseI64(s).ok THEN ParseI64(s).n ELSE 0
    IN  CASE left.t = "Number" /\ right.t = "Number" -> Ok(VNumber(left.n + right.n))
          [] left.t = "String" /\ right.t = "Number" -> Ok(VNumber(num(left.s) + right.n))
          [] left.t = "Number" /\ right.t = "String" -> Ok(VNumber(left.n + num(right.s)))
          [] OTHER -> Err("Addition of non-numbers")

AddValues(left, right) ==
    CASE left.t = "Number" /\ right.t = "Number" -> Ok(VNumber(left.n + right.n))
      [] left.t = "String" /\ right.t = "Number" ->
            LET p == ParseUnwrap(left.s)
            IN  IF p.st = "Ok" THEN Ok(VNumber(p.v + right.n)) ELSE p
      [] left.t = "Number" /\ right.t = "String" ->
            LET p == ParseUnwrap(right.s)
            IN  IF p.st = "Ok" THEN Ok(VNumber(left.n + p.v)) ELSE p
      [] OTHER -> Err("Addition of non-numbers")

\* Multiply without the string coercion
MultiplyNumbersOnly(left, right) ==
    CASE left.t = "Number" /\ right.t = "Number" -> Ok(VNumber(left.n * right.n))
      [] OTHER -> Err("Multiplication of non-numbers")

MultiplyValues(left, right) ==
    CASE left.t = "Number" /\ right.t = "Number" -> Ok(VNumber(left.n * right.n))
      [] left.t = "String" /\ right.t = "Number" ->
            LET p == ParseUnwrap(left.s)
            IN  IF p.st = "Ok" THEN Ok(VNumber(p.v * right.n)) ELSE p
      [] left.t = "Number" /\ right.t = "String" ->
            LET p == ParseUnwrap(right.s)
            IN  IF p.st = "Ok" THEN Ok(VNumber(left.n * p.v)) ELSE p
      [] OTHER -> Err("Multiplication of non-numbers")

EqualityValues(left, right) ==
    CASE left.t = "Number" /\ right.t = "Number"   -> Ok(VBoolean(left.n = right.n))
      [] left.t = "Boolean" /\ right.t = "Boolean" -> Ok(VBoolean(left.b = right.b))
      [] OTHER -> Err("DisEquality of non-numbers")

LessThanValues(left, right) ==
    CASE left.t = "Number" /\ right.t = "Number" -> Ok(VBoolean(left.n < right.n))
      [] OTHER -> Err("DisEquality of non-numbers")

DisEqualityValues(left, right) ==
    CASE left.t = "Number" /\ right.t = "Number"   -> Ok(VBoolean(left.n # right.n))
      [] left.t = "Boolean" /\ right.t = "Boolean" -> Ok(VBoolean(left.b # right.b))
      [] left.t = "String" /\ right.t = "String"   -> Ok(VBoolean(left.s # right.s))
      [] OTHER -> Err("DisEquality not implemented")

\* ContainedIn with the operands of contains exchanged
ContainedInSwapped(left, right) ==
    CASE left.t = "String" /\ right.t = "String" -> Ok(VBoolean(Contains(left.s, right.s)))
      [] OTHER -> Err("ContainedIn of non-strings")

ContainedInValues(left, right) ==
    CASE left.t = "String" /\ right.t = "String" -> Ok(VBoolean(Contains(right.s, left.s)))
      [] OTHER -> Err("ContainedIn of non-strings")

\* the match on the operator, applied to the two operand values
ApplyOp(op, left, right) ==
    CASE op = "Add"         -> AddValues(left, right)
      [] op = "Multiply"    -> MultiplyValues(left, right)
      [] op = "Equality"    -> EqualityValues(left, right)
      [] op = "LessThan"    -> LessThanValues(left, right)
      [] op = "DisEquality" -> DisEqualityValues(left, right)
      [] op = "ContainedIn" -> ContainedInValues(left, right)

eval_expr(e, expr) ==
    CASE expr.k = "TermWrapper" -> eval_term(e, expr.t)
      [] expr.k \in {"Add", "Multiply", "Equality", "LessThan", "DisEquality",
                     "ContainedIn"} ->
            LET left == eval_term(e, expr.l)
            IN  IF left.st # "Ok" THEN left
                ELSE LET right == eval_term(e, expr.r)
                     IN  IF right.st # "Ok" THEN right
                         ELSE ApplyOp(expr.k, left.v, right.v)
      [] OTHER -> Err("eval_expr: unimplemented")

---------------------------------------------------------------------------
(* runtime.rs: statements.  Each operator returns what the statement does  *)
(* to the environment, to standard output and to the statements pending.   *)

\* an assignment that binds a new name only under let
evaluate_assignment_declared(e, variable_name, expr, is_let) ==
    LET value == eval_expr(e, expr)
    IN  IF value.st # "Ok" THEN value
        ELSE IF is_let \/ variable_name \in DOMAIN e
             THEN Ok(Insert(e, variable_name, value.v))
             ELSE Ok(e)

\* the new environment of an assignment
evaluate_assignment(e, variable_name, expr, is_let) ==
    LET value == eval_expr(e, expr)
    IN  IF value.st # "Ok" THEN value
        ELSE Ok(Insert(e, variable_name, value.v))

\* the text println! writes for a value
ValueText(value) ==
    CASE value.t = "String"  -> value.s
      [] value.t = "Number"  -> ToDecimal(value.n)
      [] value.t = "Boolean" -> IF value.b THEN <<"t", "r", "u", "e">>
                                ELSE <<"f", "a", "l", "s", "e">>

\* the line a print statement writes
eval_print(e, expr) ==
    LET value == eval_expr(e, expr)
    IN  IF value.st # "Ok" THEN value ELSE Ok(ValueText(value.v))

\* an If that skips only on Boolean(false)
eval_if_unless_false(e, expr, body) ==
    LET p == eval_expr(e, expr)
    IN  IF p.st # "Ok" THEN p
        ELSE IF p.v # VBoolean(FALSE) THEN Ok(<<body>>) ELSE Ok(<<>>)

\* the statements an If evaluates next: its body, or nothing
eval_if(e, expr, body) ==
    LET p == eval_expr(e, expr)
    IN  IF p.st # "Ok" THEN p
        ELSE IF p.v = VBoolean(TRUE) THEN Ok(<<body>>) ELSE Ok(<<>>)

\* the statements a While evaluates next: its body and then itself, or nothing
\* a loop that takes a failing predicate for the end of the loop
eval_while_until_error(e, expr, body) ==
    LET p == eval_expr(e, expr)
    IN  IF p.st = "Ok" /\ p.v = VBoolean(TRUE) THEN Ok(<<body, While(expr, body)>>)
        ELSE Ok(<<>>)

eval_while(e, expr, body) ==
    LET p == eval_expr(e, expr)
    IN  IF p.st # "Ok" THEN p
        ELSE IF p.v = VBoolean(TRUE) THEN Ok(<<body, While(expr, body)>>) ELSE Ok(<<>>)

\* an error that ends the statement only
PropagateToNext(rest) == rest

\* the ? operator: an error leaves every enclosing loop, block and inner_run
Propagate(rest) == <<>>

---------------------------------------------------------------------------
(* runtime.rs: eval and inner_run as steps.  `pending` is the rest of the  *)
(* for loops of inner_run and of the enclosing blocks, and the enclosing   *)
(* while loops, which the call stack holds in the code.                    *)

Running == [st |-> "running", msg |-> "", stage |-> ""]
Finished(st, msg, stage) == [st |-> st, msg |-> msg, stage |-> stage]

lexerVars  == <<chars, tokens>>
parserVars == <<input, ret>>

\* a statement evaluated to r: carry on with `next`, or leave with the error
Continue(r, next) ==
    IF r.st = "Ok"
    THEN /\ pending' = next
         /\ outcome' = outcome
    ELSE /\ pending' = Propagate(Tail(pending))
         /\ outcome' = Finished(r.st, r.msg, "eval")

EvalAssignment ==
    /\ pc = "eval" /\ pending # <<>>
    /\ Head(pending).k = "Assignment"
    /\ LET stmt == Head(pending)
           r    == evaluate_assignment(env, stmt.name, stmt.e, stmt.is_let)
       IN  /\ Continue(r, Tail(pending))
           /\ env' = IF r.st = "Ok" THEN r.v ELSE env
           /\ assigned' = IF r.st = "Ok"
                          THEN Insert(assigned, stmt.name, eval_expr(env, stmt.e).v)
                          ELSE assigned
    /\ UNCHANGED <<pc, entry, given, lexerVars, parserVars, stdout, printed>>

EvalPrint ==
    /\ pc = "eval" /\ pending # <<>>
    /\ Head(pending).k = "Print"
    /\ LET r == eval_print(env, Head(pending).e)
       IN  /\ Continue(r, Tail(pending))
           /\ stdout' = IF r.st = "Ok" THEN Append(stdout, r.v) ELSE stdout
           /\ printed' = IF r.st = "Ok" THEN Append(printed, r.v) ELSE printed
    /\ UNCHANGED <<pc, entry, given, lexerVars, parserVars, env, assigned>>

EvalIf ==
    /\ pc = "eval" /\ pending # <<>>
    /\ Head(pending).k = "If"
    /\ LET r == eval_if(env, Head(pending).e, Head(pending).body)
       IN  Continue(r, IF r.st = "Ok" THEN r.v \o Tail(pending) ELSE <<>>)
    /\ UNCHANGED <<pc, entry, given, lexerVars, parserVars, env, stdout, printed,
                   assigned>>

EvalWhile ==
    /\ pc = "eval" /\ pending # <<>>
    /\ Head(pending).k = "While"
    /\ LET r == eval_while(env, Head(pending).e, Head(pending).body)
       IN  Continue(r, IF r.st = "Ok" THEN r.v \o Tail(pending) ELSE <<>>)
    /\ UNCHANGED <<pc, entry, given, lexerVars, parserVars, env, stdout, printed,
                   assigned>>

EvalBlock ==
    /\ pc = "eval" /\ pending # <<>>
    /\ Head(pending).k = "Block"
    /\ pending' = Head(pending).block \o Tail(pending)
    /\ UNCHANGED <<pc, entry, given, lexerVars, parserVars, env, stdout, outcome,
                   printed, assigned>>

\* one call of eval
EvalStep == EvalAssignment \/ EvalPrint \/ EvalIf \/ EvalWhile \/ EvalBlock

\* inner_run returns: Ok(env) after the last statement, or the error
RunReturn ==
    /\ pc = "eval" /\ pending = <<>>
    /\ pc' = "done"
    /\ outcome' = IF outcome.st = "running" THEN Finished("Ok", "", "") ELSE outcome
    /\ UNCHANGED <<entry, given, lexerVars, parserVars, pending, env, stdout,
                   printed, assigned>>

---------------------------------------------------------------------------
(* Programs handed to inner_run directly, as the tests of runtime.rs do.   *)

NameA == <<"a">>
NameB == <<"b">>
NameC == <<"c">>
NameX == <<"x">>

StringPool == {<<>>, <<"a">>, <<"b">>, <<"a", "b">>, <<"1">>, <<"-", "1">>, <<"1", "x">>}

LitTerms ==
    {TInteger(n) : n \in 0..MaxLit} \cup {TBoolean(b) : b \in BOOLEAN}
        \cup {TString(str) : str \in StringPool}

BinaryOps == {"Add", "Multiply", "Equality", "DisEquality", "LessThan", "ContainedIn"}

\* print l op r, for every operator and every pair of literal operands
OperatorPrograms ==
    {<<PrintStmt(BinaryExpr(op, l, r))>> :
        op \in BinaryOps \cup {"LogicalOr"}, l \in LitTerms, r \in LitTerms}

\* b := base; print b[index]
IndexPrograms ==
    {<<Assignment(NameB, TermWrapper(base), TRUE),
       PrintStmt(TermWrapper(TVariableIndexed(NameB, TermWrapper(index))))>> :
        base \in LitTerms,
        index \in LitTerms \cup {TInteger(0 - 1), TInteger(MaxLit + 1)}}

SimpleStatements ==
    {Assignment(NameA, TermWrapper(TInteger(n)), l) : n \in 0..MaxLit, l \in BOOLEAN}
        \cup {Assignment(NameB, TermWrapper(TString(<<"a", "b">>)), TRUE),
              Assignment(NameA, BinaryExpr("Add", TVariable(NameA), TInteger(1)), FALSE),
              Assignment(NameA, TermWrapper(TVariable(NameC)), FALSE),
              PrintStmt(TermWrapper(TVariable(NameA)))}

Predicates ==
    {TermWrapper(TBoolean(TRUE)), TermWrapper(TBoolean(FALSE)),
     TermWrapper(TInteger(1)), TermWrapper(TString(<<"a">>)),
     BinaryExpr("LessThan", TVariable(NameA), TInteger(MaxLit)),
     BinaryExpr("Equality", TVariable(NameC), TInteger(1))}

\* a loop of the pool either ends or repeats a state: it neither counts up
\* nor prints for ever
BoundedLoop(p, stmt) ==
    /\ ~(p = TermWrapper(TBoolean(TRUE)) /\ stmt.k = "Assignment" /\ stmt.e.k = "Add")
    /\ ~(stmt.k = "Print" /\ p.k \in {"LessThan"})
    /\ ~(stmt.k = "Print" /\ p = TermWrapper(TBoolean(TRUE)))

CompoundStatements ==
    {If(p, Block(<<stmt>>)) : p \in Predicates, stmt \in SimpleStatements}
        \cup {While(p, Block(<<stmt>>)) :
                p \in Predicates, stmt \in {x \in SimpleStatements : TRUE}}

StatementPool ==
    {stmt \in SimpleStatements \cup CompoundStatements :
        stmt.k = "While" => BoundedLoop(stmt.e, Head(stmt.body.block))}

AfterStatements ==
    {PrintStmt(TermWrapper(TVariable(NameA))),
     Assignment(NameB, TermWrapper(TInteger(0)), FALSE)}

ControlPrograms ==
    {<<first, second, third>> :
        first \in SimpleStatements, second \in StatementPool, third \in AfterStatements}

\* runtime.rs test_eval
TestEvalProgram ==
    <<Assignment(NameA, TermWrapper(TInteger(1)), TRUE),
      Assignment(NameB, TermWrapper(TInteger(2)), TRUE)>>

\* let x := 10 + 5; print x;
LetPrintProgram ==
    <<Assignment(NameX, BinaryExpr("Add", TInteger(10), TInteger(5)), TRUE),
      PrintStmt(TermWrapper(TVariable(NameX)))>>

\* a := 0; b := "ab"; while true { print b[a]; a := a + 1; } print a;
IndexLoopProgram ==
    <<Assignment(NameA, TermWrapper(TInteger(0)), TRUE),
      Assignment(NameB, TermWrapper(TString(<<"a", "b">>)), TRUE),
      While(TermWrapper(TBoolean(TRUE)),
            Block(<<PrintStmt(TermWrapper(TVariableIndexed(NameB,
                                                TermWrapper(TVariable(NameA))))),
                    Assignment(NameA, BinaryExpr("Add", TVariable(NameA), TInteger(1)),
                               FALSE)>>)),
      PrintStmt(TermWrapper(TVariable(NameA)))>>

\* print "5" + 3;
CoerceProgram ==
    <<PrintStmt(BinaryExpr("Add", TString(<<"5">>), TInteger(3)))>>

\* print "abc" + 3; print 1;
NotNumericProgram ==
    <<PrintStmt(BinaryExpr("Add", TString(<<"a", "b", "c">>), TInteger(3))),
      PrintStmt(TermWrapper(TInteger(1)))>>

\* predicates whose evaluation fails after a := 1; b := "ab": an unbound
\* variable, operand types the operator does not take, an index out of range
FailingPredicates ==
    {TermWrapper(TVariable(NameC)),
     BinaryExpr("LessThan", TVariable(NameC), TInteger(1)),
     BinaryExpr("LessThan", TVariable(NameB), TInteger(1)),
     BinaryExpr("Equality", TVariable(NameB), TVariable(NameB)),
     BinaryExpr("Add", TBoolean(TRUE), TVariable(NameA)),
     BinaryExpr("ContainedIn", TVariable(NameA), TVariable(NameB)),
     BinaryExpr("LogicalOr", TBoolean(TRUE), TBoolean(TRUE)),
     TermWrapper(TVariableIndexed(NameB, TermWrapper(TInteger(2)))),
     TermWrapper(TVariableIndexed(NameA, TermWrapper(TInteger(0)))),
     BinaryExpr("DisEquality",
                TVariableIndexed(NameB, BinaryExpr("Add", TVariable(NameA), TInteger(1))),
                TString(<<"a">>))}

\* a := 1; b := "ab"; if p { print a; a := 2; } print a;  and the same with while
FailingPredicatePrograms ==
    {<<Assignment(NameA, TermWrapper(TInteger(1)), TRUE),
       Assignment(NameB, TermWrapper(TString(<<"a", "b">>)), TRUE),
       [k |-> kind, e |-> p,
        body |-> Block(<<PrintStmt(TermWrapper(TVariable(NameA))),
                         Assignment(NameA, TermWrapper(TInteger(2)), FALSE)>>)],
       PrintStmt(TermWrapper(TVariable(NameA)))>> :
        kind \in {"If", "While"}, p \in FailingPredicates}

\* a := 0; b := "ab"; while b[a] != "x" { print b[a]; a := a + 1; } print a;
\* the predicate fails when the loop comes to its third iteration
LatePredicateFailureProgram ==
    <<Assignment(NameA, TermWrapper(TInteger(0)), TRUE),
      Assignment(NameB, TermWrapper(TString(<<"a", "b">>)), TRUE),
      While(BinaryExpr("DisEquality",
                       TVariableIndexed(NameB, TermWrapper(TVariable(NameA))),
                       TString(<<"x">>)),
            Block(<<PrintStmt(TermWrapper(TVariableIndexed(NameB,
                                                TermWrapper(TVariable(NameA))))),
                    Assignment(NameA, BinaryExpr("Add", TVariable(NameA), TInteger(1)),
                               FALSE)>>)),
      PrintStmt(TermWrapper(TVariable(NameA)))>>

Programs ==
    OperatorPrograms \cup IndexPrograms \cup ControlPrograms
        \cup FailingPredicatePrograms \cup {LatePredicateFailureProgram}
        \cup {TestEvalProgram, LetPrintProgram, IndexLoopProgram, CoerceProgram,
              NotNumericProgram}

InitEval ==
    /\ pc = "eval"
    /\ entry = "inner_run"
    /\ chars = <<>> /\ tokens = <<>>
    /\ input = <<>> /\ ret = <<>>
    /\ given \in Programs
    /\ pending = given
    /\ env = EmptyEnv
    /\ stdout = <<>>
    /\ outcome = Running
    /\ printed = <<>>
    /\ assigned = EmptyEnv

NextEval == EvalStep \/ RunReturn

SpecEval == InitEval /\ [][NextEval]_vars

---------------------------------------------------------------------------
(* lexer::parse and parser::parse_input as steps, and main.rs.             *)

LexStep ==
    /\ pc = "lex" /\ chars # <<>>
    /\ LET r == lex_token(chars)
       IN  IF r.st = "Err"
           THEN /\ outcome' = Finished("Err", r.msg, "lex")
                /\ pc' = "done"
                /\ tokens' = <<>>
                /\ chars' = chars
           ELSE /\ tokens' = IF r.st = "Ok" THEN Append(tokens, r.tok) ELSE tokens
                /\ chars' = r.rest
                /\ UNCHANGED <<pc, outcome>>
    /\ UNCHANGED <<entry, given, parserVars, pending, env, stdout, printed, assigned>>

\* parse returns Ok(tokens); main hands them to parse_input
LexReturn ==
    /\ pc = "lex" /\ chars = <<>>
    /\ IF entry = "main"
       THEN /\ pc' = "parse"
            /\ input' = tokens
            /\ outcome' = outcome
       ELSE /\ pc' = "done"
            /\ input' = input
            /\ outcome' = Finished("Ok", "", "")
    /\ UNCHANGED <<entry, given, lexerVars, ret, pending, env, stdout, printed, assigned>>

\* one iteration of the loop of parse_input
ParseInputStep ==
    /\ pc = "parse" /\ input # <<>>
    /\ LET r == parse_statement(input)
       IN  /\ stdout' = stdout \o <<DebugOption(Peek(input))>> \o r.lines
           /\ IF r.st = "Ok"
              THEN /\ ret' = Append(ret, r.v)
                   /\ input' = r.rest
                   /\ UNCHANGED <<pc, outcome>>
              ELSE /\ outcome' = Finished(r.st, r.msg, "parse")
                   /\ pc' = "done"
                   /\ ret' = <<>>
                   /\ input' = input
    /\ UNCHANGED <<entry, given, lexerVars, pending, env, printed, assigned>>

\* parse_input returns Ok(ret); main hands it to run
ParseInputReturn ==
    /\ pc = "parse" /\ input = <<>>
    /\ IF entry = "main"
       THEN /\ pc' = "eval"
            /\ pending' = ret
            /\ outcome' = outcome
       ELSE /\ pc' = "done"
            /\ pending' = pending
            /\ outcome' = Finished("Ok", "", "")
    /\ UNCHANGED <<entry, given, lexerVars, parserVars, env, stdout, printed, assigned>>

---------------------------------------------------------------------------
(* Source texts handed to main.                                            *)

\* runtime.rs test_simple: the digit-extraction script
DigitScript ==
    <<"\n", "l", "e", "t", " ", "q", "u", "i", "z", "_", "i", "n", "p", "u",
      "t", " ", ":", "=", " ", "\"", "\n", "1", "a", "b", "c", "2", "\n",
      "p", "q", "r", "3", "s", "t", "u", "8", "v", "w", "x", "\n", "a", "1",
      "b", "2", "c", "3", "d", "4", "e", "5", "f", "\n", "t", "r", "e", "b",
      "7", "u", "c", "h", "e", "t", "\n", "\"", ";", "\n", "l", "e", "t",
      " ", "s", "u", "m", " ", ":", "=", " ", "0", ";", "\n", "l", "e", "t",
      " ", "i", "n", "d", "e", "x", " ", ":", "=", " ", "0", ";", "\n",
      "\n", "w", "h", "i", "l", "e", " ", "i", "n", "d", "e", "x", " ", "<",
      " ", "4", "2", " ", "{", "\n", " ", " ", " ", " ", "l", "e", "t", " ",
      "i", "s", "_", "f", "i", "r", "s", "t", "_", "d", "i", "g", "i", "t",
      "_", "f", "o", "u", "n", "d", " ", ":", "=", " ", "f", "a", "l", "s",
      "e", ";", "\n", " ", " ", " ", " ", "l", "e", "t", " ", "f", "i", "r",
      "s", "t", "_", "d", "i", "g", "i", "t", "_", "f", "o", "u", "n", "d",
      " ", ":", "=", " ", "0", ";", "\n", " ", " ", " ", " ", "l", "e", "t",
      " ", "l", "a", "s", "t", "_", "d", "i", "g", "i", "t", "_", "f", "o",
      "u", "n", "d", " ", ":", "=", " ", "0", ";", "\n", " ", " ", " ", " ",
      "w", "h", "i", "l", "e", " ", "q", "u", "i", "z", "_", "i", "n", "p",
      "u", "t", "[", "i", "n", "d", "e", "x", "]", " ", "!", "=", " ", "\"",
      "\\", "n", "\"", " ", "{", "\n", " ", " ", " ", " ", " ", " ", " ",
      " ", "i", "f", " ", "q", "u", "i", "z", "_", "i", "n", "p", "u", "t",
      "[", "i", "n", "d", "e", "x", "]", " ", "i", "n", " ", "\"", "0", "1",
      "2", "3", "4", "5", "6", "7", "8", "9", "\"", " ", "{", "\n", " ",
      " ", " ", " ", " ", " ", " ", " ", " ", " ", " ", " ", "i", "f", " ",
      "i", "s", "_", "f", "i", "r", "s", "t", "_", "d", "i", "g", "i", "t",
      "_", "f", "o", "u", "n", "d", " ", "=", "=", " ", "f", "a", "l", "s",
      "e", " ", "{", "\n", " ", " ", " ", " ", " ", " ", " ", " ", " ", " ",
      " ", " ", " ", " ", " ", " ", "f", "i", "r", "s", "t", "_", "d", "i",
      "g", "i", "t", "_", "f", "o", "u", "n", "d", " ", ":", "=", " ", "q",
      "u", "i", "z", "_", "i", "n", "p", "u", "t", "[", "i", "n", "d", "e",
      "x", "]", ";", "\n", " ", " ", " ", " ", " ", " ", " ", " ", " ", " ",
      " ", " ", " ", " ", " ", " ", "i", "s", "_", "f", "i", "r", "s", "t",
      "_", "d", "i", "g", "i", "t", "_", "f", "o", "u", "n", "d", " ", ":",
      "=", " ", "t", "r", "u", "e", ";", "\n", " ", " ", " ", " ", " ", " ",
      " ", " ", " ", " ", " ", " ", "}", " ", "\n", " ", " ", " ", " ", " ",
      " ", " ", " ", " ", " ", " ", " ", "l", "a", "s", "t", "_", "d", "i",
      "g", "i", "t", "_", "f", "o", "u", "n", "d", " ", ":", "=", " ", "q",
      "u", "i", "z", "_", "i", "n", "p", "u", "t", "[", "i", "n", "d", "e",
      "x", "]", ";", "\n", " ", " ", " ", " ", " ", " ", " ", " ", "}",
      "\n", " ", " ", " ", " ", " ", " ", " ", " ", "i", "n", "d", "e", "x",
      " ", ":", "=", " ", "i", "n", "d", "e", "x", " ", "+", " ", "1", ";",
      "\n", " ", " ", " ", " ", "}", "\n", " ", " ", " ", " ", "l", "e",
      "t", " ", "f", "i", "r", "s", "t", "_", "d", "i", "g", "i", "t", "_",
      "f", "o", "u", "n", "d", "_", "m", "u", "l", "t", " ", ":", "=", " ",
      "f", "i", "r", "s", "t", "_", "d", "i", "g", "i", "t", "_", "f", "o",
      "u", "n", "d", " ", "*", " ", "1", "0", ";", "\n", " ", " ", " ", " ",
      "s", "u", "m", " ", ":", "=", " ", "s", "u", "m", " ", "+", " ", "f",
      "i", "r", "s", "t", "_", "d", "i", "g", "i", "t", "_", "f", "o", "u",
      "n", "d", "_", "m", "u", "l", "t", ";", "\n", " ", " ", " ", " ", "s",
      "u", "m", " ", ":", "=", " ", "s", "u", "m", " ", "+", " ", "l", "a",
      "s", "t", "_", "d", "i", "g", "i", "t", "_", "f", "o", "u", "n", "d",
      ";", "\n", " ", " ", " ", " ", "i", "n", "d", "e", "x", " ", ":", "=",
      " ", "i", "n", "d", "e", "x", " ", "+", " ", "1", ";", "\n", "}",
      "\n", "p", "r", "i", "n", "t", " ", "s", "u", "m", ";", "\n">>

\* let x := 10 + 5; print x;
LetPrintSource ==
    <<"l", "e", "t", " ", "x", " ", ":", "=", " ", "1", "0", " ", "+", " ",
      "5", ";", " ", "p", "r", "i", "n", "t", " ", "x", ";">>

\* let s := "ab"; print s[1];
IndexSource ==
    <<"l", "e", "t", " ", "s", " ", ":", "=", " ", "\"", "a", "b", "\"",
      ";", " ", "p", "r", "i", "n", "t", " ", "s", "[", "1", "]", ";">>

\* print "5" + 3;
CoerceSource ==
    <<"p", "r", "i", "n", "t", " ", "\"", "5", "\"", " ", "+", " ", "3", ";">>

\* print "-5" + 3;
NegativeSource ==
    <<"p", "r", "i", "n", "t", " ", "\"", "-", "5", "\"", " ", "+", " ",
      "3", ";">>

\* print "abc" + 3; print 1;
NotNumericSource ==
    <<"p", "r", "i", "n", "t", " ", "\"", "a", "b", "c", "\"", " ", "+",
      " ", "3", ";", " ", "p", "r", "i", "n", "t", " ", "1", ";">>

\* a malformed operator after two good statements
LexErrorSource ==
    <<"l", "e", "t", " ", "x", " ", ":", "=", " ", "1", ";", " ", "p", "r",
      "i", "n", "t", " ", "x", ";", " ", "x", " ", "=", " ", "2", ";">>

\* an unrecognized character after two good statements
BadCharSource ==
    <<"l", "e", "t", " ", "x", " ", ":", "=", " ", "1", ";", " ", "p", "r",
      "i", "n", "t", " ", "x", ";", " ", "#">>

\* let x : 1;
BadColonSource ==
    <<"l", "e", "t", " ", "x", " ", ":", " ", "1", ";">>

\* print 1 ! 2;
BadBangSource ==
    <<"p", "r", "i", "n", "t", " ", "1", " ", "!", " ", "2", ";">>

\* print true | false;
BadPipeSource ==
    <<"p", "r", "i", "n", "t", " ", "t", "r", "u", "e", " ", "|", " ", "f",
      "a", "l", "s", "e", ";">>

\* a missing := after two good statements
ParseErrorSource ==
    <<"l", "e", "t", " ", "x", " ", ":", "=", " ", "1", ";", " ", "p", "r",
      "i", "n", "t", " ", "x", ";", " ", "x", " ", "2", ";">>

\* the loop fails in its third iteration
IndexLoopSource ==
    <<"l", "e", "t", " ", "a", " ", ":", "=", " ", "0", ";", " ", "l", "e",
      "t", " ", "b", " ", ":", "=", " ", "\"", "a", "b", "\"", ";", "\n",
      "w", "h", "i", "l", "e", " ", "t", "r", "u", "e", " ", "{", " ", "p",
      "r", "i", "n", "t", " ", "b", "[", "a", "]", ";", " ", "a", " ", ":",
      "=", " ", "a", " ", "+", " ", "1", ";", " ", "}", "\n", "p", "r", "i",
      "n", "t", " ", "a", ";">>

\* the block fails at its first statement
BlockErrorSource ==
    <<"l", "e", "t", " ", "a", " ", ":", "=", " ", "1", ";", " ", "i", "f",
      " ", "a", " ", "=", "=", " ", "1", " ", "{", " ", "p", "r", "i", "n",
      "t", " ", "c", ";", " ", "a", " ", ":", "=", " ", "2", ";", " ", "}",
      " ", "p", "r", "i", "n", "t", " ", "a", ";">>

\* let a := 1; let b := a + a + a; print b;
ChainSource ==
    <<"l", "e", "t", " ", "a", " ", ":", "=", " ", "1", ";", " ", "l", "e",
      "t", " ", "b", " ", ":", "=", " ", "a", " ", "+", " ", "a", " ", "+",
      " ", "a", ";", " ", "p", "r", "i", "n", "t", " ", "b", ";">>

\* print "ab
OpenStringSource ==
    <<"p", "r", "i", "n", "t", " ", "\"", "a", "b">>

\* print a[1 + 2
OpenIndexSource ==
    <<"p", "r", "i", "n", "t", " ", "a", "[", "1", " ", "+", " ", "2">>

\* a loop that never ends
SpinSource ==
    <<"l", "e", "t", " ", "a", " ", ":", "=", " ", "0", ";", " ", "w", "h",
      "i", "l", "e", " ", "a", " ", "<", " ", "1", " ", "{", " ", "l", "e",
      "t", " ", "b", " ", ":", "=", " ", "1", ";", " ", "}">>

\* let a := 5; if a { a := 1; } while "x" { a := 2; } print a != 5;
SkipSource ==
    <<"l", "e", "t", " ", "a", " ", ":", "=", " ", "5", ";", " ", "i", "f",
      " ", "a", " ", "{", " ", "a", " ", ":", "=", " ", "1", ";", " ", "}",
      " ", "w", "h", "i", "l", "e", " ", "\"", "x", "\"", " ", "{", " ",
      "a", " ", ":", "=", " ", "2", ";", " ", "}", " ", "p", "r", "i", "n",
      "t", " ", "a", " ", "!", "=", " ", "5", ";">>

\* 
EmptySource ==
    <<>>

Sources ==
    {DigitScript,
     LetPrintSource,
     IndexSource,
     CoerceSource,
     NegativeSource,
     NotNumericSource,
     LexErrorSource,
     BadCharSource,
     BadColonSource,
     BadBangSource,
     BadPipeSource,
     ParseErrorSource,
     IndexLoopSource,
     BlockErrorSource,
     ChainSource,
     OpenStringSource,
     OpenIndexSource,
     SpinSource,
     SkipSource,
     EmptySource}

InitMain ==
    /\ pc = "lex"
    /\ entry = "main"
    /\ given \in Sources
    /\ chars = given
    /\ tokens = <<>>
    /\ input = <<>> /\ ret = <<>>
    /\ pending = <<>>
    /\ env = EmptyEnv
    /\ stdout = <<>>
    /\ outcome = Running
    /\ printed = <<>>
    /\ assigned = EmptyEnv

NextMain == LexStep \/ LexReturn \/ ParseInputStep \/ ParseInputReturn \/ EvalStep \/ RunReturn

SpecMain == InitMain /\ [][NextMain]_vars

\* ENABLED <<ParseInputStep>>_vars: the step is defined for every input left
ParseInputEnabled == pc = "parse" /\ input # <<>>

\* weak fairness of ParseInputStep, with its enabling condition written out
ParseInputFair == []<>(~ParseInputEnabled) \/ []<><<ParseInputStep>>_vars

\* main is one thread that runs on: a stage that can take a step takes it
FairMain ==
    /\ SpecMain
    /\ WF_vars(LexStep)
    /\ WF_vars(LexReturn \/ ParseInputReturn \/ RunReturn)
    /\ ParseInputFair
    /\ WF_vars(EvalStep)

---------------------------------------------------------------------------
(* Texts handed to lexer::parse directly, as the tests of lexer.rs do.     *)

\* every numeral of 1 to MaxDigits decimal digits
Numerals == UNION {[1..n -> {Digits[i] : i \in 1..10}] : n \in 1..MaxDigits}

\* lexer.rs test_number_parsing pads "    1000000   "; the other pair uses
\* the remaining whitespace characters
Paddings ==
    {<<<<>>, <<>>>>,
     <<<<" ", " ", " ", " ">>, <<" ", " ", " ">>>>,
     <<<<"\t", "\n">>, <<"\r">>>>}

PaddedNumerals == {p[1] \o w \o p[2] : w \in Numerals, p \in Paddings}

\* the characters of string bodies: a letter, a blank, and the two of \n
BodyChars == {"a", " ", "\\", "n"}

StringBodies == UNION {[1..n -> BodyChars] : n \in 0..MaxDigits}

\* "body" and, with the closing quote missing, "body
ClosedStrings == {<<"\"">> \o b \o <<"\"">> : b \in StringBodies}
OpenStrings   == {<<"\"">> \o b : b \in StringBodies}

\* lexer.rs test_while
TestWhileSource ==
    <<"w", "h", "i", "l", "e", " ", "t", "r", "u", "e", " ", "{", " ", "l",
      "e", "t", " ", "i", " ", ":", "=", " ", "1", "0", " ", "+", " ", "5",
      ";", " ", "}">>

LexerTexts ==
    PaddedNumerals \cup ClosedStrings \cup OpenStrings
        \cup {TestWhileSource, BadCharSource, BadColonSource}

InitLexer ==
    /\ pc = "lex"
    /\ entry = "parse"
    /\ given \in LexerTexts
    /\ chars = given
    /\ tokens = <<>>
    /\ input = <<>> /\ ret = <<>>
    /\ pending = <<>>
    /\ env = EmptyEnv
    /\ stdout = <<>>
    /\ outcome = Running
    /\ printed = <<>>
    /\ assigned = EmptyEnv

NextLexer == LexStep \/ LexReturn

SpecLexer == InitLexer /\ [][NextLexer]_vars

---------------------------------------------------------------------------
(* Token vectors handed to parse_input directly, as the tests of parser.rs *)
(* do.                                                                     *)

TokenAlphabet ==
    {Tok("Let"), TokIdentifier(NameX), Tok("Assignment"), TokInteger(1),
     Tok("Semicolon"), Tok("Print"), Tok("OpenSquareParenthesis"),
     Tok("CloseSquareParenthesis"), Tok("Addition"), Tok("OpenGraphParenthesis"),
     Tok("CloseGraphParenthesis"), Tok("If"), Tok("While"), Tok("True")}

\* every token vector of at most MaxTokens tokens
ShortTokenVectors ==
    UNION {[1..n -> TokenAlphabet] : n \in 0..MaxTokens}

\* parser.rs test_assignment, for the literals 0..MaxLit and its own 10
TestAssignmentPlain(n) == <<TokIdentifier(NameX), Tok("Assignment"), TokInteger(n)>>
TestAssignmentLet(n) ==
    <<Tok("Let"), TokIdentifier(NameX), Tok("Assignment"), TokInteger(n)>>

TestLiterals == (0..MaxLit) \cup {10}

\* parser.rs test_parser: while true { let i := 10 + 5; }
TestParserTokens ==
    <<Tok("While"), Tok("True"), Tok("OpenGraphParenthesis"), Tok("Let"),
      TokIdentifier(<<"i">>), Tok("Assignment"), TokInteger(10), Tok("Addition"),
      TokInteger(5), Tok("Semicolon"), Tok("CloseGraphParenthesis")>>

\* well-formed statements, one of each form
GoodTokenVectors ==
    {TestParserTokens,
     \* let x := 1;
     <<Tok("Let"), TokIdentifier(NameX), Tok("Assignment"), TokInteger(1),
       Tok("Semicolon")>>,
     \* x := x[1];
     <<TokIdentifier(NameX), Tok("Assignment"), TokIdentifier(NameX),
       Tok("OpenSquareParenthesis"), TokInteger(1), Tok("CloseSquareParenthesis"),
       Tok("Semicolon")>>,
     \* print x[1 + 1];
     <<Tok("Print"), TokIdentifier(NameX), Tok("OpenSquareParenthesis"), TokInteger(1),
       Tok("Addition"), TokInteger(1), Tok("CloseSquareParenthesis"), Tok("Semicolon")>>,
     \* if x < 1 { print "a"; }
     <<Tok("If"), TokIdentifier(NameX), Tok("LessThan"), TokInteger(1),
       Tok("OpenGraphParenthesis"), Tok("Print"), TokString(<<"a">>), Tok("Semicolon"),
       Tok("CloseGraphParenthesis")>>,
     \* x := 1 + 1 + 1;
     <<TokIdentifier(NameX), Tok("Assignment"), TokInteger(1), Tok("Addition"),
       TokInteger(1), Tok("Addition"), TokInteger(1), Tok("Semicolon")>>}

\* the input ends early
Prefixes(v) == {SubSeq(v, 1, n) : n \in 0..Len(v)}
\* one token is missing
Deletions(v) == {SubSeq(v, 1, i - 1) \o SubSeq(v, i + 1, Len(v)) : i \in 1..Len(v)}

\* the places an expression is parsed in, with the token each requires after it
ExprContexts ==
    {[head |-> <<TokIdentifier(NameX), Tok("Assignment")>>, tail |-> <<Tok("Semicolon")>>],
     [head |-> <<Tok("Let"), TokIdentifier(NameX), Tok("Assignment")>>,
      tail |-> <<Tok("Semicolon")>>],
     [head |-> <<Tok("Print")>>, tail |-> <<Tok("Semicolon")>>],
     [head |-> <<Tok("If")>>,
      tail |-> <<Tok("OpenGraphParenthesis"), Tok("CloseGraphParenthesis")>>],
     [head |-> <<Tok("While")>>,
      tail |-> <<Tok("OpenGraphParenthesis"), Tok("CloseGraphParenthesis")>>]}

\* a op b op c in each of them, for every two operators
ChainTokenVectors ==
    {c.head \o <<TokIdentifier(NameX), Tok(op1), TokInteger(1), Tok(op2), TokInteger(2)>>
        \o c.tail :
        c \in ExprContexts, op1 \in OperatorTokens, op2 \in OperatorTokens}

\* one token of every variant of Token
EveryToken ==
    {Tok(k) : k \in {"True", "False", "Assignment", "OpenRoundParenthesis",
                     "CloseRoundParenthesis", "OpenGraphParenthesis",
                     "CloseGraphParenthesis", "OpenSquareParenthesis",
                     "CloseSquareParenthesis", "While", "If", "Else",
                     "ExclamationPoint", "LogicalOr", "Addition", "Multiplication",
                     "Semicolon", "Equality", "Disequality", "Let", "LessThan", "In",
                     "Print"}}
        \cup {TokInteger(2), TokIdentifier(NameA), TokString(<<"a">>)}

\* index expressions, as tokens and as the expression they parse to
IndexExprs ==
    {[toks |-> <<TokInteger(1)>>, e |-> TermWrapper(TInteger(1))],
     [toks |-> <<TokIdentifier(NameA)>>, e |-> TermWrapper(TVariable(NameA))],
     [toks |-> <<TokInteger(1), Tok("Addition"), TokInteger(2)>>,
      e |-> BinaryExpr("Add", TInteger(1), TInteger(2))],
     [toks |-> <<TokIdentifier(NameA), Tok("LessThan"), TokInteger(1)>>,
      e |-> BinaryExpr("LessThan", TVariable(NameA), TInteger(1))]}

\* what follows the indexed term in a print statement
IndexedTails ==
    {[toks |-> <<Tok("Semicolon")>>, op |-> "None"],
     [toks |-> <<Tok("Addition"), TokInteger(2), Tok("Semicolon")>>, op |-> "Add"]}

\* the tokens that can follow the index expression: after a lone term, an
\* operator, and after an identifier also [, belong to the expression itself
FollowsIndex(idx, T) ==
    Len(idx.toks) = 1 =>
        /\ T.k \notin OperatorTokens
        /\ ~(idx.toks[1].k = "Identifier" /\ T.k = "OpenSquareParenthesis")

\* print x [ indexExpr T ...
IndexedVector(idx, T, tail) ==
    <<Tok("Print"), TokIdentifier(NameX), Tok("OpenSquareParenthesis")>>
        \o idx.toks \o <<T>> \o tail.toks

IndexedTokenVectors ==
    {IndexedVector(idx, T, tail) :
        idx \in IndexExprs, T \in EveryToken, tail \in IndexedTails}

TokenVectors ==
    ShortTokenVectors
        \cup ChainTokenVectors
        \cup IndexedTokenVectors
        \cup {TestAssignmentPlain(n) : n \in TestLiterals}
        \cup {TestAssignmentLet(n) : n \in TestLiterals}
        \cup GoodTokenVectors
        \cup UNION {Prefixes(v) \cup Deletions(v) : v \in GoodTokenVectors}

InitParser ==
    /\ pc = "parse"
    /\ entry = "parse_input"
    /\ given \in TokenVectors
    /\ chars = <<>> /\ tokens = <<>>
    /\ input = given
    /\ ret = <<>>
    /\ pending = <<>>
    /\ env = EmptyEnv
    /\ stdout = <<>>
    /\ outcome = Running
    /\ printed = <<>>
    /\ assigned = EmptyEnv

NextParser == ParseInputStep \/ ParseInputReturn

SpecParser == InitParser /\ [][NextParser]_vars

---------------------------------------------------------------------------
(* The properties.                                                         *)

NameSum == <<"s", "u", "m">>

Done == pc = "done"
Failed == outcome.st \in {"Err", "Panic"}

\* C1: run from its source text, the digit-extraction script ends without
\* error, and then the environment binds sum to Number 142.
DigitScriptSums ==
    (given = DigitScript)
        ~> (Done /\ outcome.st = "Ok" /\ NameSum \in DOMAIN env
                 /\ env[NameSum] = VNumber(142))

DigitScriptDone ==
    given = DigitScript /\ Done /\ outcome.st = "Ok" /\ env[NameSum] = VNumber(142)

\* C2: when a program has run to its end without error, the environment is
\* the map from each assigned name to the value of the last assignment
\* executed for it, at any depth and with or without let, and holds no other
\* name; let x := 10 + 5; print x; leaves {x: 15}, test_eval leaves
\* {a: 1, b: 2}.
EnvIsLastAssignments ==
    (Done /\ outcome.st = "Ok" /\ entry = "inner_run") =>
        /\ env = assigned
        /\ given = LetPrintProgram =>
              /\ DOMAIN env = {NameX}
              /\ env[NameX] = VNumber(15)
              /\ printed = <<<<"1", "5">>>>
        /\ given = TestEvalProgram =>
              /\ DOMAIN env = {NameA, NameB}
              /\ env[NameA] = VNumber(1)
              /\ env[NameB] = VNumber(2)

\* let a := 0; if true { a := 2; } b := 0;
NestedAssignmentProgram ==
    <<Assignment(NameA, TermWrapper(TInteger(0)), TRUE),
      If(TermWrapper(TBoolean(TRUE)),
         Block(<<Assignment(NameA, TermWrapper(TInteger(2)), FALSE)>>)),
      Assignment(NameB, TermWrapper(TInteger(0)), FALSE)>>

NestedAssignmentDone ==
    /\ given = NestedAssignmentProgram
    /\ Done /\ outcome.st = "Ok"
    /\ env[NameA] = VNumber(2) /\ env[NameB] = VNumber(0)

\* C3: over a complete run the lines on standard output are exactly the
\* texts of the executed print statements, in order.
StdoutIsPrinted == stdout = printed

\* C4: an If or a While whose predicate evaluates to a value other than
\* Boolean(true) goes on to the statement after it: the body is not
\* evaluated, the environment stays and no error is raised; on Boolean(true)
\* the body is evaluated next.
IsBranch == pc = "eval" /\ pending # <<>> /\ Head(pending).k \in {"If", "While"}

SkipsUnlessTrue ==
    [][IsBranch /\ eval_expr(env, Head(pending).e).st = "Ok" =>
          IF eval_expr(env, Head(pending).e).v = VBoolean(TRUE)
          THEN /\ Head(pending') = Head(pending).body
               /\ env' = env /\ outcome' = outcome
          ELSE /\ pending' = Tail(pending)
               /\ env' = env /\ outcome' = outcome /\ stdout' = stdout]_vars

\* a := 0; if 1 { a := 2; } print a;
SkippedIfProgram ==
    <<Assignment(NameA, TermWrapper(TInteger(0)), TRUE),
      If(TermWrapper(TInteger(1)),
         Block(<<Assignment(NameA, TermWrapper(TInteger(2)), FALSE)>>)),
      PrintStmt(TermWrapper(TVariable(NameA)))>>

SkippedIfDone ==
    /\ given = SkippedIfProgram
    /\ Done /\ outcome.st = "Ok"
    /\ env[NameA] = VNumber(0) /\ printed = <<<<"0">>>>

\* C5: b[i], with b a String of n characters and i a Number: for i >= n the
\* run fails with the out-of-range error value and prints nothing; for
\* 0 <= i < n it prints the one character at position i.
IsStringIndexProgram ==
    /\ given \in IndexPrograms
    /\ given[1].e.t.k = "String"
    /\ given[2].e.t.e.t.k = "Integer"

IndexInRangeOrError ==
    (Done /\ IsStringIndexProgram) =>
        LET str == given[1].e.t.s
            i   == given[2].e.t.e.t.n
        IN  /\ i >= Len(str) =>
                  /\ outcome.st = "Err"
                  /\ outcome.msg = "variableIndexed: index out of bounds"
                  /\ printed = <<>>
            /\ (0 <= i /\ i < Len(str)) =>
                  /\ outcome.st = "Ok"
                  /\ printed = <<<<str[i + 1]>>>>

IndexAtLength ==
    /\ Done /\ IsStringIndexProgram
    /\ given[1].e.t.s = <<"a", "b">> /\ given[2].e.t.e.t.n = 2
    /\ outcome.st = "Err"

\* C6: Add of a String and a Number adds the number the string spells:
\* print "5" + 3; prints 8.  When the string spells no number the run fails
\* with the numeric-parse error: nothing is printed and no later statement
\* runs.
IsMixedAdd ==
    /\ given \in OperatorPrograms
    /\ given[1].e.k = "Add"
    /\ {given[1].e.l.k, given[1].e.r.k} = {"String", "Integer"}

AddCoercesOrFails ==
    Done =>
        /\ given = CoerceProgram => outcome.st = "Ok" /\ printed = <<<<"8">>>>
        /\ given = NotNumericProgram =>
              /\ Failed /\ outcome.msg = "ParseIntError"
              /\ printed = <<>> /\ stdout = <<>>
        /\ IsMixedAdd =>
              LET l   == given[1].e.l
                  r   == given[1].e.r
                  str == IF l.k = "String" THEN l.s ELSE r.s
                  n   == IF l.k = "String" THEN r.n ELSE l.n
              IN  IF ParseI64(str).ok
                  THEN outcome.st = "Ok" /\ printed = <<ToDecimal(ParseI64(str).n + n)>>
                  ELSE Failed /\ outcome.msg = "ParseIntError" /\ printed = <<>>

NotNumericFailed == given = NotNumericProgram /\ Done /\ Failed

\* C7: for every binary operator and every pair of operand types, the
\* result is the one of the semantics table, and an error where the table
\* defines none.
LiteralValue(term) ==
    CASE term.k = "Integer" -> VNumber(term.n)
      [] term.k = "String"  -> VString(term.s)
      [] term.k = "Boolean" -> VBoolean(term.b)

\* the cells of the table that hold a result
TableDefines(op, lt, rt) ==
    CASE op \in {"Add", "Multiply"} ->
            {lt, rt} = {"Number"} \/ {lt, rt} = {"Number", "String"}
      [] op = "Equality"    -> lt = rt /\ lt \in {"Number", "Boolean"}
      [] op = "DisEquality" -> lt = rt
      [] op = "LessThan"    -> lt = "Number" /\ rt = "Number"
      [] op = "ContainedIn" -> lt = "String" /\ rt = "String"

\* the number an operand of Add or Multiply stands for
Numeral(v) == IF v.t = "Number" THEN v.n ELSE ParseI64(v.s).n
Numeric(v) == v.t = "Number" \/ ParseI64(v.s).ok

\* r is some text, then l, then some text
Substring(l, r) ==
    \E i \in 0..Len(r) : \E j \in i..Len(r) :
        r = SubSeq(r, 1, i) \o l \o SubSeq(r, j + 1, Len(r))

TableResult(op, l, r) ==
    CASE op = "Add"         -> VNumber(Numeral(l) + Numeral(r))
      [] op = "Multiply"    -> VNumber(Numeral(l) * Numeral(r))
      [] op = "Equality"    -> VBoolean(l = r)
      [] op = "DisEquality" -> VBoolean(l # r)
      [] op = "LessThan"    -> VBoolean(l.n < r.n)
      [] op = "ContainedIn" -> VBoolean(Substring(l.s, r.s))

IsOperatorProgram == given \in OperatorPrograms /\ given[1].e.k \in BinaryOps

OperatorsFollowTable ==
    (Done /\ IsOperatorProgram) =>
        LET op == given[1].e.k
            l  == LiteralValue(given[1].e.l)
            r  == LiteralValue(given[1].e.r)
        IN  IF TableDefines(op, l.t, r.t)
            THEN (op \in {"Add", "Multiply"} => Numeric(l) /\ Numeric(r)) =>
                    /\ outcome.st = "Ok"
                    /\ printed = <<ValueText(TableResult(op, l, r))>>
            ELSE outcome.st = "Err" /\ printed = <<>>

ContainedInDone ==
    /\ Done /\ IsOperatorProgram
    /\ given[1].e = BinaryExpr("ContainedIn", TString(<<"a">>), TString(<<"a", "b">>))
    /\ printed = <<<<"t", "r", "u", "e">>>>

\* C8: once a statement's evaluation has failed no further statement is
\* evaluated and that failure is what the run returns; and when lexing or
\* parsing fails no statement has been evaluated at all.
FailFast ==
    /\ [][Failed => ~EvalStep /\ outcome' = outcome]_vars
    /\ [](outcome.stage \in {"lex", "parse"} =>
             env = EmptyEnv /\ printed = <<>> /\ pending = <<>>)

LoopStoppedByError ==
    /\ given = IndexLoopSource
    /\ Done /\ outcome.st = "Err" /\ outcome.stage = "eval"
    /\ printed = <<<<"a">>, <<"b">>>>

\* C9: parse_input accepts [Identifier x, Assignment, Integer n] and
\* [Let, Identifier x, Assignment, Integer n], with no Semicolon, as the one
\* statement Assignment(x, TermWrapper(Integer n), false) and (.., true).
TestAssignmentParses ==
    Done =>
        \A n \in TestLiterals :
            /\ given = TestAssignmentPlain(n) =>
                  /\ outcome.st = "Ok"
                  /\ ret = <<Assignment(NameX, TermWrapper(TInteger(n)), FALSE)>>
            /\ given = TestAssignmentLet(n) =>
                  /\ outcome.st = "Ok"
                  /\ ret = <<Assignment(NameX, TermWrapper(TInteger(n)), TRUE)>>

\* C10: for every token vector parse_input returns Ok or an error value; it
\* never panics.
ParseReturnsResult == Done => outcome.st \in {"Ok", "Err"}


\* C11 as stated: a numeral of 1 to MaxDigits digits, with or without
\* whitespace around it, lexes to exactly one token Integer(v), and v written
\* in decimal is the numeral again.
NumeralOf(text) == SelectSeq(text, IsDigit)

NumeralRoundTrips ==
    (Done /\ entry = "parse" /\ given \in PaddedNumerals) =>
        /\ outcome.st = "Ok"
        /\ Len(tokens) = 1
        /\ tokens[1].k = "Integer"
        /\ ToDecimal(tokens[1].n) = NumeralOf(given)

\* the numeral without its leading zeros, the last digit always kept
RECURSIVE StripLeadingZeros(_)
StripLeadingZeros(w) ==
    IF Len(w) > 1 /\ Head(w) = "0" THEN StripLeadingZeros(Tail(w)) ELSE w

\* C11 (amended): a numeral of 1 to MaxDigits digits, with or without
\* whitespace around it, lexes to exactly one token Integer(v), and v written
\* in decimal is the numeral without its leading zeros: the numeral itself
\* when it is 0 or does not start with 0.
NumeralRoundTripsUpToZeros ==
    (Done /\ entry = "parse" /\ given \in PaddedNumerals) =>
        /\ outcome.st = "Ok"
        /\ Len(tokens) = 1
        /\ tokens[1].k = "Integer"
        /\ ToDecimal(tokens[1].n) = StripLeadingZeros(NumeralOf(given))
        /\ (NumeralOf(given) = <<"0">> \/ Head(NumeralOf(given)) # "0")
              => ToDecimal(tokens[1].n) = NumeralOf(given)

PaddedNumeralLexed ==
    /\ Done /\ entry = "parse"
    /\ given = <<"\t", "\n", "0", "7", "0", "\r">>
    /\ tokens = <<TokInteger(70)>>

\* C14: a text whose string literal is opened and never closed fails to lex,
\* and no tokens are returned for it.
UnterminatedStringFails ==
    (Done /\ entry = "parse" /\ given \in OpenStrings) =>
        outcome.st = "Err" /\ tokens = <<>>


\* the tokens of a statement before its expression
HeadLen(in) ==
    CASE in[1].k = "Identifier" -> 2
      [] in[1].k = "Let"        -> 3
      [] OTHER                  -> 1

IsLiteralToken(t) == t.k \in {"Integer", "String", "True", "False"}
IsTermToken(t) == IsLiteralToken(t) \/ t.k = "Identifier"

\* the next statement is an assignment, print, if or while whose expression
\* is a op b op c
IsChainStatement(in) ==
    /\ in # <<>>
    /\ in[1].k \in {"Identifier", "Let", "Print", "If", "While"}
    /\ Len(in) >= HeadLen(in) + 5
    /\ in[1].k = "Identifier" => in[2] = Tok("Assignment")
    /\ in[1].k = "Let" => in[2].k = "Identifier" /\ in[3] = Tok("Assignment")
    /\ LET h == HeadLen(in)
       IN  /\ IsTermToken(in[h + 1]) /\ in[h + 2].k \in OperatorTokens
           /\ IsLiteralToken(in[h + 3]) /\ in[h + 4].k \in OperatorTokens
           /\ IsTermToken(in[h + 5])

ChainExpr(in) == SubSeq(in, HeadLen(in) + 1, Len(in))
FirstPair(in) ==
    BinaryExpr(OperatorOf(in[HeadLen(in) + 2].k),
               parse_term(<<in[HeadLen(in) + 1]>>).v,
               parse_term(<<in[HeadLen(in) + 3]>>).v)

\* C12 as stated: for a op b op c the parser builds the first pair, reports
\* no error, and leaves `op c` in the input as the start of the next statement.
ChainLeftForNextStatement ==
    [][(pc = "parse" /\ IsChainStatement(input)) =>
          /\ pc' = "parse" /\ outcome'.st = "running"
          /\ Len(ret') = Len(ret) + 1
          /\ ret'[Len(ret')].e = FirstPair(input)
          /\ input' = SubSeq(input, HeadLen(input) + 4, Len(input))]_vars

\* C12 (amended): for a op b op c parse_expr builds the first pair, consumes
\* no second operator and returns no error, leaving `op c` in the input; the
\* statement the expression belongs to then fails to parse, because the token
\* it requires next (`;` after the expression of an assignment or a print,
\* `{` after the predicate of an if or a while) is not that operator.
ChainStopsAtSecondOperator ==
    [][(pc = "parse" /\ IsChainStatement(input)) =>
          /\ parse_expr(ChainExpr(input)) =
                POk(FirstPair(input), SubSeq(input, HeadLen(input) + 4, Len(input)), <<>>)
          /\ pc' = "done" /\ ret' = <<>>
          /\ outcome' = Finished("Err",
                                 IF input[1].k \in {"If", "While"}
                                 THEN "Expected '{'" ELSE "Expected ';'",
                                 "parse")]_vars

ChainRejected ==
    /\ Done /\ entry = "parse_input"
    /\ given = <<TokIdentifier(NameX), Tok("Assignment"), TokInteger(1), Tok("Addition"),
                 TokInteger(1), Tok("Addition"), TokInteger(1), Tok("Semicolon")>>
    /\ outcome = Finished("Err", "Expected ';'", "parse")


\* C13: the evaluation of a program's statements always comes to an end, with
\* a new environment or an error value, and never aborts by panic.
StatementEvalIsTotal ==
    /\ [](pc = "eval" => outcome.st # "Panic")
    /\ (pc = "eval") ~> (Done /\ outcome.st \in {"Ok", "Err"})


\* C15: in print x [ indexExpr T ..., whatever token T follows the index
\* expression is taken as the closing bracket: the term is
\* VariableIndexed(x, indexExpr), no error is reported, and parsing goes on
\* with the token after T.
IndexedStatement(idx, tail) ==
    LET term == TVariableIndexed(NameX, idx.e)
    IN  IF tail.op = "None" THEN PrintStmt(TermWrapper(term))
        ELSE PrintStmt(BinaryExpr(tail.op, term, TInteger(2)))

AnyTokenClosesIndex ==
    (Done /\ entry = "parse_input") =>
        \A idx \in IndexExprs, T \in EveryToken, tail \in IndexedTails :
            (FollowsIndex(idx, T) /\ given = IndexedVector(idx, T, tail)) =>
                /\ outcome.st = "Ok"
                /\ ret = <<IndexedStatement(idx, tail)>>
                /\ input = <<>>

IndexClosedBySemicolon ==
    /\ Done /\ entry = "parse_input"
    /\ given = <<Tok("Print"), TokIdentifier(NameX), Tok("OpenSquareParenthesis"),
                 TokInteger(1), Tok("Semicolon"), Tok("Semicolon")>>
    /\ outcome.st = "Ok"
    /\ ret = <<PrintStmt(TermWrapper(TVariableIndexed(NameX, TermWrapper(TInteger(1)))))>>


\* C16: when the predicate of an If or of a While fails to evaluate, the
\* statement fails with the predicate's error: the body is not entered,
\* nothing is printed or assigned, and nothing is left to evaluate, neither a
\* further iteration nor a later statement.
PredicateFails == IsBranch /\ eval_expr(env, Head(pending).e).st = "Err"

FailingPredicateFails ==
    [][PredicateFails =>
          /\ outcome' = Finished("Err", eval_expr(env, Head(pending).e).msg, "eval")
          /\ pending' = <<>>
          /\ env' = env /\ stdout' = stdout /\ printed' = printed]_vars

LoopEndedByPredicate ==
    /\ given = LatePredicateFailureProgram
    /\ Done /\ outcome.st = "Err"
    /\ printed = <<<<"a">>, <<"b">>>>
    /\ env[NameA] = VNumber(2)

=============================================================================
